---- MODULE Spec2Model ----
(***************************************************************************)
(* LiCAS External Control Interface over UDP (class LiCAS_ECI_UDP).        *)
(*                                                                         *)
(* One interface instance, the thread of its caller and the detached       *)
(* reception threads started by openUDPInterface.  Every access to a       *)
(* member shared between the threads, and every system call, is one step.  *)
(***************************************************************************)
EXTENDS Integers, Sequences, FiniteSets, TLC

(***************************************************************************)
(* Bounds of the model                                                     *)
(***************************************************************************)
MaxListeners == 2      \* reception threads started over one run
MaxCalls     == 3      \* calls of the public methods over one run
MaxDgrams    == 2      \* datagrams on their way to the reception ports
MaxClock     == 1      \* readings of gettimeofday after construction
NumFds       == 4      \* descriptors the process may hold open

(***************************************************************************)
(* Program constants                                                       *)
(***************************************************************************)
NUM_ARM_JOINTS == 4
LiCAS_CONTROL_MODE_JOINT_POS == 1
LiCAS_CONTROL_MODE_JOINT_SPD == 2
LiCAS_CONTROL_MODE_JOINT_TRQ == 3
LiCAS_CONTROL_MODE_TCP_POS == 101
LiCAS_CONTROL_MODE_TCP_VEL == 102
LiCAS_CONTROL_MODE_TCP_FRC == 103
RecvBufLen == 1023
PollBudget == 100      \* one second of waiting, in sleeps of 10 ms
ControlModes ==
    {LiCAS_CONTROL_MODE_JOINT_POS, LiCAS_CONTROL_MODE_JOINT_SPD, LiCAS_CONTROL_MODE_JOINT_TRQ,
     LiCAS_CONTROL_MODE_TCP_POS, LiCAS_CONTROL_MODE_TCP_VEL, LiCAS_CONTROL_MODE_TCP_FRC}

\* sizeof of the two packed structures: one byte of tag, four bytes per float
SizeofControlRef == 1 + 4 + 4 * 3 + 4 * 3 + 4 * NUM_ARM_JOINTS + 4 * NUM_ARM_JOINTS + 4
SizeofFeedback == 1 + 4 * 3 + 4 * 3 + 8 * (4 * NUM_ARM_JOINTS)

(***************************************************************************)
(* float timer of closeInterface.  A float below 2 is held as a whole      *)
(* number of units of 2^-30; the double 0.01 is 10737418.24 such units.    *)
(* timer += 0.01 adds in double and rounds the sum to the 24 significant   *)
(* bits of a float; the fraction .24 never makes a tie, it only decides    *)
(* the half-way case upwards.                                              *)
(***************************************************************************)
FloatOne == 1073741824
CentiUnits == 10737418
TwoPow24 == 16777216

RECURSIVE Ulp(_, _)
Ulp(s, u) == IF s \div u >= TwoPow24 THEN Ulp(s, 2 * u) ELSE u

RoundToFloat(s) ==
    LET u == Ulp(s, 1)
        q == s \div u
        r == s % u
    IN  IF u >= 2 /\ r >= u \div 2 THEN (q + 1) * u ELSE q * u

TimerAdd(timer) == RoundToFloat(timer + CentiUnits)

(***************************************************************************)
(* (float)elapsedTime: the microsecond count rounded to 24 significant     *)
(* bits, ties to even.                                                     *)
(***************************************************************************)
ToFloat(e) ==
    LET u == Ulp(e, 1)
        q == e \div u
        r == e % u
    IN  IF 2 * r > u \/ (2 * r = u /\ q % 2 = 1) THEN (q + 1) * u ELSE q * u

(***************************************************************************)
(* Inputs                                                                  *)
(***************************************************************************)
Hosts == {"host", "nohost"}          \* "nohost": gethostbyname returns NULL
TxPort == 23000
RxPort == 24000
OtherRxPort == 24003
TxPorts == {TxPort}
RxPorts == {RxPort, OtherRxPort}
Garbage == {0, 7}                    \* contents of memory never written

FieldNames == {"pL", "pR", "qL", "qR", "dqL", "dqR", "tauL", "tauR", "pwmL", "pwmR"}
TCPFields == {"pL", "pR"}
JointFields == FieldNames \ TCPFields

\* the feedback packet number b: every array carries its own value
FieldValue(b, f) ==
    16 * b + CASE f = "pL" -> 1 [] f = "pR" -> 2 [] f = "qL" -> 3 [] f = "qR" -> 4
               [] f = "dqL" -> 5 [] f = "dqR" -> 6 [] f = "tauL" -> 7
               [] f = "tauR" -> 8 [] f = "pwmL" -> 9 [] f = "pwmR" -> 10
FeedbackPacket(id, b) == [packetID |-> id] @@ [f \in FieldNames |-> FieldValue(b, f)]
\* datagrams of the packet's size, one packet for each port, and datagrams
\* of other sizes: shorter by one byte, longer by one byte, longer than the
\* receive buffer
OtherLens == {SizeofFeedback - 1, SizeofFeedback + 1, RecvBufLen + 100}
Dgrams ==
    {[len |-> SizeofFeedback, port |-> RxPort, data |-> FeedbackPacket(0, 1)],
     [len |-> SizeofFeedback, port |-> OtherRxPort, data |-> FeedbackPacket(1, 2)]}
    \cup [len : OtherLens, port : {RxPort}, data : {FeedbackPacket(0, 1)}]

Fds == 3 .. (2 + NumFds)
Listeners == 1 .. MaxListeners
CallerId == 0
Threads == {CallerId} \cup Listeners

VARIABLES
    \* members of the instance
    LiCAS_IP_Address, UDP_TxPort, UDP_RxPort, socketSender, addrHost,
    tact, elapsedTime,
    flagFeedbackReceived, flagTerminateThread, flagRxThreadTerminated,
    fb,                     \* pL, pR, qL, qR, dqL, dqR, tauL, tauR, pwmL, pwmR
    t_lastUpdate, elapsedTimeLastUpdate,
    \* the caller's thread
    cpc, cargs, cerr, timer, cflag, bytesSent, ctrlPkt, lastRet,
    \* the reception threads
    lpc, socketReceiver, dataReceived, buffer, lerr, logStream,
    \* getElapsedTime in progress, per thread
    gt, tret, tloc,
    \* operating system and network
    fds, clock, logFile, inflight, wire,
    \* bookkeeping of the run
    ncalls, nPolls, nSendto, lastSpawn, prevSent

mvars == <<LiCAS_IP_Address, UDP_TxPort, UDP_RxPort, socketSender, addrHost>>
tvars == <<tact, elapsedTime>>
flags == <<flagFeedbackReceived, flagTerminateThread, flagRxThreadTerminated>>
fbvars == <<fb, t_lastUpdate, elapsedTimeLastUpdate>>
cvars == <<cpc, cargs, cerr, timer, cflag, bytesSent, ctrlPkt, lastRet>>
lvars == <<lpc, socketReceiver, dataReceived, buffer, lerr, logStream>>
gvars == <<gt, tret, tloc>>
osvars == <<fds, clock, logFile, inflight, wire>>
bvars == <<ncalls, nPolls, nSendto, lastSpawn, prevSent>>
vars == <<mvars, tvars, flags, fbvars, cvars, lvars, gvars, osvars, bvars>>

(***************************************************************************)
(* Descriptors                                                             *)
(***************************************************************************)
FreeFd == [kind |-> "free", port |-> 0]
IsOpen(fd) == fd \in Fds /\ fds[fd].kind # "free"
IsSocket(fd) == fd \in Fds /\ fds[fd].kind = "sock"
HasFreeFd == \E fd \in Fds : fds[fd].kind = "free"
LowestFree == CHOOSE fd \in Fds : fds[fd].kind = "free" /\ \A g \in Fds : fds[g].kind = "free" => fd <= g
\* close(fd): releases an open descriptor, EBADF otherwise
CloseFd(table, fd) == IF fd \in Fds THEN [table EXCEPT ![fd] = FreeFd] ELSE table
PortBound(p) == \E fd \in Fds : fds[fd].kind = "sock" /\ fds[fd].port = p

NoArgs == [op |-> "none"]
NoPacket == [mode |-> 0]
NoRet == [op |-> "none", code |-> 0]
NoAddr == [host |-> "", port |-> -1]
NoStream == [fd |-> -1, off |-> 0, state |-> "closed"]
NoSent == [args |-> NoArgs, data |-> NoPacket]
LogLine(t, fields) == [t |-> t] @@ fields
OldLine == LogLine(-1, [f \in FieldNames |-> 0])      \* a line of an earlier run
HoleLine == LogLine(-2, [f \in FieldNames |-> 0])     \* bytes never written

(***************************************************************************)
(* Constructor                                                             *)
(***************************************************************************)
Init ==
    /\ LiCAS_IP_Address = ""
    /\ UDP_TxPort = -1
    /\ UDP_RxPort = -1
    /\ socketSender = -1
    /\ addrHost = NoAddr
    /\ tact = 0
    /\ elapsedTime = 0
    /\ flagFeedbackReceived = 0
    /\ flagTerminateThread = 0
    /\ flagRxThreadTerminated = 0
    /\ \E g \in Garbage :
          fb = [f \in FieldNames |-> IF f \in TCPFields THEN g ELSE 0]
    /\ t_lastUpdate = 0
    /\ elapsedTimeLastUpdate = 0
    /\ cpc = "idle"
    /\ cargs = NoArgs
    /\ cerr = 0
    /\ timer = 0
    /\ cflag = 0
    /\ bytesSent = 0
    /\ ctrlPkt = NoPacket
    /\ lastRet = NoRet
    /\ lpc = [i \in Listeners |-> "unborn"]
    /\ socketReceiver = [i \in Listeners |-> -1]
    /\ dataReceived = [i \in Listeners |-> 0]
    /\ buffer = [i \in Listeners |-> FeedbackPacket(0, 0)]
    /\ lerr = [i \in Listeners |-> 0]
    /\ logStream = [i \in Listeners |-> NoStream]
    /\ gt = [th \in Threads |-> 0]
    /\ tret = [th \in Threads |-> 0]
    /\ tloc = [th \in Threads |-> 0]
    /\ fds = [fd \in Fds |-> FreeFd]
    /\ clock = 0
    /\ logFile = <<OldLine>>
    /\ inflight \in UNION {[1 .. n -> Dgrams] : n \in 0 .. MaxDgrams}
    /\ wire = <<>>
    /\ ncalls = 0
    /\ nPolls = 0
    /\ nSendto = 0
    /\ lastSpawn = 0
    /\ prevSent = NoSent

(***************************************************************************)
(* getElapsedTime, called by thread th from the statement it stands at:    *)
(* gettimeofday(&tact); elapsedTime = tact - tini; t = (float)elapsedTime. *)
(* tact and elapsedTime are members, shared by all threads and not         *)
(* protected; tini is the clock origin 0.  gt is the thread's position in  *)
(* the call, tloc the value of tact it has loaded, tret the value last     *)
(* returned to it.                                                         *)
(***************************************************************************)
Returned == 4

GetTimeOfDay(th) ==
    /\ gt[th] = 0
    /\ tact' = clock
    /\ gt' = [gt EXCEPT ![th] = 1]
    /\ UNCHANGED <<elapsedTime, tret, tloc>>

\* the right-hand side of the assignment: tact is read ...
LoadTact(th) ==
    /\ gt[th] = 1
    /\ tloc' = [tloc EXCEPT ![th] = tact]
    /\ gt' = [gt EXCEPT ![th] = 2]
    /\ UNCHANGED <<tact, elapsedTime, tret>>

\* ... and the difference is stored in elapsedTime
ComputeElapsed(th) ==
    /\ gt[th] = 2
    /\ elapsedTime' = tloc[th]
    /\ gt' = [gt EXCEPT ![th] = 3]
    /\ UNCHANGED <<tact, tret, tloc>>

\* t = (float)elapsedTime: the member read again, or the value just stored
\* when the compiler keeps it in a register
ReturnElapsed(th) ==
    /\ gt[th] = 3
    /\ \E v \in {elapsedTime, tloc[th]} :
          tret' = [tret EXCEPT ![th] = ToFloat(v)]
    /\ gt' = [gt EXCEPT ![th] = Returned]
    /\ UNCHANGED <<tact, elapsedTime, tloc>>

InGetElapsedTime(th) ==
    IF th = CallerId THEN cpc \in {"s_stamp", "g_time"} ELSE lpc[th] \in {"log", "dt", "tlast"}

getElapsedTime(th) ==
    /\ InGetElapsedTime(th)
    /\ GetTimeOfDay(th) \/ LoadTact(th) \/ ComputeElapsed(th) \/ ReturnElapsed(th)
    /\ UNCHANGED <<mvars, flags, fbvars, cvars, lvars, osvars, bvars>>

\* the same statements with no other thread in between
getElapsedTimeAlone(th) ==
    /\ InGetElapsedTime(th)
    /\ gt[th] = 0
    /\ tact' = clock
    /\ elapsedTime' = clock
    /\ tloc' = [tloc EXCEPT ![th] = clock]
    /\ tret' = [tret EXCEPT ![th] = ToFloat(clock)]
    /\ gt' = [gt EXCEPT ![th] = Returned]
    /\ UNCHANGED <<mvars, flags, fbvars, cvars, lvars, osvars, bvars>>

(***************************************************************************)
(* socket(): the lowest free descriptor, or -1                             *)
(***************************************************************************)
SocketResults == {-1} \cup (IF HasFreeFd THEN {LowestFree} ELSE {})
AfterSocket(r) == IF r < 0 THEN fds ELSE [fds EXCEPT ![r] = [kind |-> "sock", port |-> 0]]

(***************************************************************************)
(* openUDPInterface                                                        *)
(***************************************************************************)
CallOpen(hosts, rxports) ==
    /\ cpc = "idle"
    /\ ncalls < MaxCalls
    /\ lastSpawn < MaxListeners
    /\ \E h \in hosts, tx \in TxPorts, rx \in rxports :
          cargs' = [op |-> "open", host |-> h, tx |-> tx, rx |-> rx]
    /\ cerr' = 0
    /\ cpc' = "o_socket"
    /\ ncalls' = ncalls + 1
    /\ UNCHANGED <<mvars, tvars, flags, fbvars, timer, cflag, bytesSent, ctrlPkt, lastRet,
                   lvars, gvars, osvars, nPolls, nSendto, lastSpawn, prevSent>>

OpenSocket ==
    /\ cpc = "o_socket"
    /\ \E r \in SocketResults :
          /\ socketSender' = r
          /\ fds' = AfterSocket(r)
          /\ cerr' = IF r < 0 THEN 1 ELSE cerr
          /\ cpc' = IF r < 0 THEN "o_ret" ELSE "o_host"
    /\ UNCHANGED <<LiCAS_IP_Address, UDP_TxPort, UDP_RxPort, addrHost, tvars, flags, fbvars,
                   cargs, timer, cflag, bytesSent, ctrlPkt, lastRet, lvars, gvars,
                   clock, logFile, inflight, wire, bvars>>

OpenHost ==
    /\ cpc = "o_host"
    /\ IF cargs.host = "nohost"
       THEN /\ cerr' = 2
            /\ fds' = CloseFd(fds, socketSender)
            /\ cpc' = "o_ret"
            /\ UNCHANGED addrHost
       ELSE /\ addrHost' = [host |-> cargs.host, port |-> cargs.tx]
            /\ cpc' = "o_spawn"
            /\ UNCHANGED <<cerr, fds>>
    /\ UNCHANGED <<LiCAS_IP_Address, UDP_TxPort, UDP_RxPort, socketSender, tvars, flags, fbvars,
                   cargs, timer, cflag, bytesSent, ctrlPkt, lastRet, lvars, gvars,
                   clock, logFile, inflight, wire, bvars>>

OpenSpawn ==
    /\ cpc = "o_spawn"
    /\ LiCAS_IP_Address' = cargs.host
    /\ UDP_TxPort' = cargs.tx
    /\ UDP_RxPort' = cargs.rx
    /\ lastSpawn' = lastSpawn + 1
    /\ lpc' = [lpc EXCEPT ![lastSpawn + 1] = "socket"]
    /\ cpc' = "o_ret"
    /\ UNCHANGED <<socketSender, addrHost, tvars, flags, fbvars,
                   cargs, cerr, timer, cflag, bytesSent, ctrlPkt, lastRet,
                   socketReceiver, dataReceived, buffer, lerr, logStream, gvars, osvars,
                   ncalls, nPolls, nSendto, prevSent>>

OpenReturn ==
    /\ cpc = "o_ret"
    /\ lastRet' = [op |-> "open", code |-> cerr]
    /\ cargs' = NoArgs
    /\ cerr' = 0
    /\ cpc' = "idle"
    /\ UNCHANGED <<mvars, tvars, flags, fbvars, timer, cflag, bytesSent, ctrlPkt,
                   lvars, gvars, osvars, bvars>>

openUDPInterface(hosts, rxports) ==
    CallOpen(hosts, rxports) \/ OpenSocket \/ OpenHost \/ OpenSpawn \/ OpenReturn

(***************************************************************************)
(* closeInterface                                                          *)
(***************************************************************************)
CallClose ==
    /\ cpc = "idle"
    /\ ncalls < MaxCalls
    /\ cargs' = [op |-> "close"]
    /\ cerr' = 0
    /\ timer' = 0
    /\ nPolls' = 0
    /\ cpc' = "c_flag"
    /\ ncalls' = ncalls + 1
    /\ UNCHANGED <<mvars, tvars, flags, fbvars, cflag, bytesSent, ctrlPkt, lastRet,
                   lvars, gvars, osvars, nSendto, lastSpawn, prevSent>>

CloseSetFlag ==
    /\ cpc = "c_flag"
    /\ flagTerminateThread' = 1
    /\ cpc' = "c_grace"
    /\ UNCHANGED <<mvars, tvars, flagFeedbackReceived, flagRxThreadTerminated, fbvars,
                   cargs, cerr, timer, cflag, bytesSent, ctrlPkt, lastRet,
                   lvars, gvars, osvars, bvars>>

\* usleep(10000) before the sender socket is closed
CloseGrace ==
    /\ cpc = "c_grace"
    /\ cpc' = "c_sock"
    /\ UNCHANGED <<mvars, tvars, flags, fbvars, cargs, cerr, timer, cflag, bytesSent, ctrlPkt,
                   lastRet, lvars, gvars, osvars, bvars>>

\* a close that leaves the member as it was
SenderLeftStale == socketSender
\* this->socketSender = -1
SenderAfterClose == -1

CloseSocket ==
    /\ cpc = "c_sock"
    /\ fds' = CloseFd(fds, socketSender)
    /\ socketSender' = SenderAfterClose
    /\ cpc' = "c_loop"
    /\ UNCHANGED <<LiCAS_IP_Address, UDP_TxPort, UDP_RxPort, addrHost, tvars, flags, fbvars,
                   cargs, cerr, timer, cflag, bytesSent, ctrlPkt, lastRet, lvars, gvars,
                   clock, logFile, inflight, wire, bvars>>

\* while(this->flagRxThreadTerminated == 0 && timer < 1)
WaitCondition(flag, t) == flag = 0 /\ t < FloatOne

CloseLoop ==
    /\ cpc = "c_loop"
    /\ cflag' = flagRxThreadTerminated
    /\ cpc' = IF WaitCondition(flagRxThreadTerminated, timer) THEN "c_sleep" ELSE "c_check"
    /\ UNCHANGED <<mvars, tvars, flags, fbvars, cargs, cerr, timer, bytesSent, ctrlPkt,
                   lastRet, lvars, gvars, osvars, bvars>>

\* usleep(10000); timer += 0.01
CloseSleep ==
    /\ cpc = "c_sleep"
    /\ timer' = TimerAdd(timer)
    /\ nPolls' = nPolls + 1
    /\ cpc' = "c_loop"
    /\ UNCHANGED <<mvars, tvars, flags, fbvars, cargs, cerr, cflag, bytesSent, ctrlPkt,
                   lastRet, lvars, gvars, osvars, ncalls, nSendto, lastSpawn, prevSent>>

\* if(timer >= 1) errorCode = 1
CloseErrorCode(t) == IF t >= FloatOne THEN 1 ELSE 0

CloseCheck ==
    /\ cpc = "c_check"
    /\ cerr' = CloseErrorCode(timer)
    /\ cpc' = "c_ret"
    /\ UNCHANGED <<mvars, tvars, flags, fbvars, cargs, timer, cflag, bytesSent, ctrlPkt,
                   lastRet, lvars, gvars, osvars, bvars>>

\* return errorCode: the locals are gone
CloseReturn ==
    /\ cpc = "c_ret"
    /\ lastRet' = [op |-> "close", code |-> cerr]
    /\ cargs' = NoArgs
    /\ cerr' = 0
    /\ timer' = 0
    /\ cflag' = 0
    /\ nPolls' = 0
    /\ cpc' = "idle"
    /\ UNCHANGED <<mvars, tvars, flags, fbvars, bytesSent, ctrlPkt,
                   lvars, gvars, osvars, ncalls, nSendto, lastSpawn, prevSent>>

closeInterface ==
    CallClose \/ CloseSetFlag \/ CloseGrace \/ CloseSocket \/ CloseLoop \/ CloseSleep
    \/ CloseCheck \/ CloseReturn

(***************************************************************************)
(* udpRxThreadFunction: set up                                             *)
(***************************************************************************)
ListenerSocket(i) ==
    /\ lpc[i] = "socket"
    /\ \E r \in SocketResults :
          /\ socketReceiver' = [socketReceiver EXCEPT ![i] = r]
          /\ fds' = AfterSocket(r)
          /\ lerr' = [lerr EXCEPT ![i] = IF r < 0 THEN 1 ELSE 0]
          /\ lpc' = [lpc EXCEPT ![i] = IF r < 0 THEN "openlog" ELSE "bind"]
    /\ UNCHANGED <<mvars, tvars, flags, fbvars, cvars, dataReceived, buffer, logStream,
                   gvars, clock, logFile, inflight, wire, bvars>>

\* bind(socketReceiver, INADDR_ANY : UDP_RxPort): fails on a port in use, or
\* for any other reason of the system; a descriptor that is no socket fails
BindResults(fd, port) ==
    {-1} \cup (IF IsSocket(fd) /\ fds[fd].port = 0 /\ ~PortBound(port) THEN {0} ELSE {})

ListenerBind(i) ==
    /\ lpc[i] = "bind"
    /\ \E r \in BindResults(socketReceiver[i], UDP_RxPort) :
          IF r < 0
          THEN /\ lerr' = [lerr EXCEPT ![i] = 2]
               /\ fds' = CloseFd(fds, socketReceiver[i])
          ELSE /\ fds' = [fds EXCEPT ![socketReceiver[i]].port = UDP_RxPort]
               /\ UNCHANGED lerr
    /\ lpc' = [lpc EXCEPT ![i] = "openlog"]
    /\ UNCHANGED <<mvars, tvars, flags, fbvars, cvars, socketReceiver, dataReceived, buffer,
                   logStream, gvars, clock, logFile, inflight, wire, bvars>>

\* ofstream::open(name): mode out, which truncates the file; a failure sets
\* the stream's fail state and is not looked at
LogOpenResults == {"failed"} \cup (IF HasFreeFd THEN {"open"} ELSE {})
OpenMode == "trunc"
AfterOpen(file) == IF OpenMode = "trunc" THEN <<>> ELSE file

ListenerOpenLog(i) ==
    /\ lpc[i] = "openlog"
    /\ IF lerr[i] = 0
       THEN \E r \in LogOpenResults :
               IF r = "open"
               THEN /\ logStream' = [logStream EXCEPT ![i] =
                                        [fd |-> LowestFree, off |-> 0, state |-> "open"]]
                    /\ fds' = [fds EXCEPT ![LowestFree] = [kind |-> "file", port |-> 0]]
                    /\ logFile' = AfterOpen(logFile)
               ELSE /\ logStream' = [logStream EXCEPT ![i].state = "failed"]
                    /\ UNCHANGED <<fds, logFile>>
       ELSE UNCHANGED <<logStream, fds, logFile>>
    /\ lpc' = [lpc EXCEPT ![i] = "loop"]
    /\ UNCHANGED <<mvars, tvars, flags, fbvars, cvars, socketReceiver, dataReceived, buffer,
                   lerr, gvars, clock, inflight, wire, bvars>>

(***************************************************************************)
(* udpRxThreadFunction: the loop                                           *)
(***************************************************************************)
\* a loop that does not look at flagTerminateThread
LoopConditionDeaf(err, terminate) == err = 0
\* while(errorCode == 0 && flagTerminateThread == 0)
LoopCondition(err, terminate) == err = 0 /\ terminate = 0

\* a thread that sets its flag without closing anything
LoopExitSkipsTeardown == "setterm"
\* the statement after the loop: LiCAS_DataLogFile.close()
LoopExit == "closelog"

ListenerLoop(i) ==
    /\ lpc[i] = "loop"
    /\ lpc' = [lpc EXCEPT ![i] =
                  IF LoopCondition(lerr[i], flagTerminateThread) THEN "recv" ELSE LoopExit]
    /\ UNCHANGED <<mvars, tvars, flags, fbvars, cvars, socketReceiver, dataReceived, buffer,
                   lerr, logStream, gvars, osvars, bvars>>

Min(a, b) == IF a <= b THEN a ELSE b
Pending(port) == {k \in 1 .. Len(inflight) : inflight[k].port = port}
FirstPending(port) == CHOOSE k \in Pending(port) : \A j \in Pending(port) : k <= j
Without(q, k) == [j \in 1 .. Len(q) - 1 |-> IF j < k THEN q[j] ELSE q[j + 1]]

\* a test that lets longer datagrams through
AcceptsAtLeast(n) == n >= SizeofFeedback
\* if(dataReceived == sizeof(LiCAS_FEEDBACK_DATA_PACKET))
Accepts(n) == n = SizeofFeedback

\* recvfrom(socketReceiver, buffer, 1023, ...) on the non-blocking socket
\* returns -1 when nothing has arrived or the descriptor is no socket
ListenerRecvNone(i) ==
    /\ lpc[i] = "recv"
    /\ dataReceived' = [dataReceived EXCEPT ![i] = -1]
    /\ lpc' = [lpc EXCEPT ![i] = IF Accepts(-1) THEN "copyTCP" ELSE "sleep"]
    /\ UNCHANGED <<mvars, tvars, flags, fbvars, cvars, socketReceiver, buffer, lerr, logStream,
                   gvars, osvars, bvars>>

\* ... and otherwise takes the first datagram of the port, cut to the buffer.
\* addrLength is passed uninitialised: with a negative value the datagram is
\* consumed and the call returns -1.
RecvResults(len) == {Min(len, RecvBufLen), -1}

ListenerRecvDgram(i) ==
    /\ lpc[i] = "recv"
    /\ IsSocket(socketReceiver[i])
    /\ fds[socketReceiver[i]].port # 0
    /\ Pending(fds[socketReceiver[i]].port) # {}
    /\ LET k == FirstPending(fds[socketReceiver[i]].port)
       IN  /\ \E n \in RecvResults(inflight[k].len) :
                 /\ dataReceived' = [dataReceived EXCEPT ![i] = n]
                 /\ lpc' = [lpc EXCEPT ![i] = IF Accepts(n) THEN "copyTCP" ELSE "sleep"]
           /\ buffer' = [buffer EXCEPT ![i] = inflight[k].data]
           /\ inflight' = Without(inflight, k)
    /\ UNCHANGED <<mvars, tvars, flags, fbvars, cvars, socketReceiver, lerr, logStream,
                   gvars, fds, clock, logFile, wire, bvars>>

\* for(k < 3): pL, pR
CopyTCP(pkt) == [f \in FieldNames |-> IF f \in TCPFields THEN pkt[f] ELSE fb[f]]

ListenerCopyTCP(i) ==
    /\ lpc[i] = "copyTCP"
    /\ fb' = CopyTCP(buffer[i])
    /\ lpc' = [lpc EXCEPT ![i] = "copyJoints"]
    /\ UNCHANGED <<mvars, tvars, flags, t_lastUpdate, elapsedTimeLastUpdate, cvars,
                   socketReceiver, dataReceived, buffer, lerr, logStream, gvars, osvars, bvars>>

\* for(k < NUM_ARM_JOINTS): qL, qR, dqL, dqR, tauL, tauR, pwmL, pwmR
CopyJoints(pkt) == [f \in FieldNames |-> IF f \in JointFields THEN pkt[f] ELSE fb[f]]

ListenerCopyJoints(i) ==
    /\ lpc[i] = "copyJoints"
    /\ fb' = CopyJoints(buffer[i])
    /\ lpc' = [lpc EXCEPT ![i] = "log"]
    /\ UNCHANGED <<mvars, tvars, flags, t_lastUpdate, elapsedTimeLastUpdate, cvars,
                   socketReceiver, dataReceived, buffer, lerr, logStream, gvars, osvars, bvars>>

\* a line written at the stream's own position (the file is not opened in
\* append mode): it replaces what is there or extends the file
RECURSIVE Holes(_)
Holes(n) == IF n <= 0 THEN <<>> ELSE <<HoleLine>> \o Holes(n - 1)
WriteAt(file, off, line) ==
    IF off < Len(file)
    THEN [file EXCEPT ![off + 1] = line]
    ELSE file \o Holes(off - Len(file)) \o <<line>>

\* LiCAS_DataLogFile << getElapsedTime() << pL ... pwmR << endl
ListenerLog(i) ==
    /\ lpc[i] = "log"
    /\ gt[i] = Returned
    /\ gt' = [gt EXCEPT ![i] = 0]
    /\ UNCHANGED <<tret, tloc>>
    /\ LET st == logStream[i]
       IN  IF st.state = "open" /\ st.fd \in Fds /\ fds[st.fd].kind = "file"
           THEN /\ logFile' = WriteAt(logFile, st.off, LogLine(tret[i], fb))
                /\ logStream' = [logStream EXCEPT ![i].off = st.off + 1]
           ELSE /\ logStream' = [logStream EXCEPT ![i].state =
                                    IF st.state = "open" THEN "failed" ELSE st.state]
                /\ UNCHANGED logFile
    /\ lpc' = [lpc EXCEPT ![i] = "dt"]
    /\ UNCHANGED <<mvars, tvars, flags, fbvars, cvars, socketReceiver, dataReceived, buffer,
                   lerr, fds, clock, inflight, wire, bvars>>

\* elapsedTimeLastUpdate = getElapsedTime() - t_lastUpdate
ListenerInterval(i) ==
    /\ lpc[i] = "dt"
    /\ gt[i] = Returned
    /\ gt' = [gt EXCEPT ![i] = 0]
    /\ UNCHANGED <<tret, tloc>>
    /\ elapsedTimeLastUpdate' = tret[i] - t_lastUpdate
    /\ lpc' = [lpc EXCEPT ![i] = "tlast"]
    /\ UNCHANGED <<mvars, tvars, flags, fb, t_lastUpdate, cvars, socketReceiver, dataReceived,
                   buffer, lerr, logStream, osvars, bvars>>

\* t_lastUpdate = getElapsedTime()
ListenerLastUpdate(i) ==
    /\ lpc[i] = "tlast"
    /\ gt[i] = Returned
    /\ gt' = [gt EXCEPT ![i] = 0]
    /\ UNCHANGED <<tret, tloc>>
    /\ t_lastUpdate' = tret[i]
    /\ lpc' = [lpc EXCEPT ![i] = "flag"]
    /\ UNCHANGED <<mvars, tvars, flags, fb, elapsedTimeLastUpdate, cvars, socketReceiver,
                   dataReceived, buffer, lerr, logStream, osvars, bvars>>

\* this->flagFeedbackReceived = 1
ListenerSetReceived(i) ==
    /\ lpc[i] = "flag"
    /\ flagFeedbackReceived' = 1
    /\ lpc' = [lpc EXCEPT ![i] = "sleep"]
    /\ UNCHANGED <<mvars, tvars, flagTerminateThread, flagRxThreadTerminated, fbvars, cvars,
                   socketReceiver, dataReceived, buffer, lerr, logStream, gvars, osvars, bvars>>

\* usleep(10000), at the end of every pass of the loop
ListenerSleep(i) ==
    /\ lpc[i] = "sleep"
    /\ lpc' = [lpc EXCEPT ![i] = "loop"]
    /\ UNCHANGED <<mvars, tvars, flags, fbvars, cvars, socketReceiver, dataReceived, buffer,
                   lerr, logStream, gvars, osvars, bvars>>

(***************************************************************************)
(* udpRxThreadFunction: after the loop                                     *)
(***************************************************************************)
\* LiCAS_DataLogFile.close()
ListenerCloseLog(i) ==
    /\ lpc[i] = "closelog"
    /\ IF logStream[i].state = "open"
       THEN /\ fds' = CloseFd(fds, logStream[i].fd)
            /\ logStream' = [logStream EXCEPT ![i].state = "closed"]
       ELSE UNCHANGED <<fds, logStream>>
    /\ lpc' = [lpc EXCEPT ![i] = "closesock"]
    /\ UNCHANGED <<mvars, tvars, flags, fbvars, cvars, socketReceiver, dataReceived, buffer,
                   lerr, gvars, clock, logFile, inflight, wire, bvars>>

\* if(errorCode == 0) close(socketReceiver)
ListenerCloseSocket(i) ==
    /\ lpc[i] = "closesock"
    /\ fds' = IF lerr[i] = 0 THEN CloseFd(fds, socketReceiver[i]) ELSE fds
    /\ lpc' = [lpc EXCEPT ![i] = "setterm"]
    /\ UNCHANGED <<mvars, tvars, flags, fbvars, cvars, socketReceiver, dataReceived, buffer,
                   lerr, logStream, gvars, clock, logFile, inflight, wire, bvars>>

\* this->flagRxThreadTerminated = 1
ListenerSetTerminated(i) ==
    /\ lpc[i] = "setterm"
    /\ flagRxThreadTerminated' = 1
    /\ lpc' = [lpc EXCEPT ![i] = "done"]
    /\ UNCHANGED <<mvars, tvars, flagFeedbackReceived, flagTerminateThread, fbvars, cvars,
                   socketReceiver, dataReceived, buffer, lerr, logStream, gvars, osvars, bvars>>

ListenerSetup(i) == ListenerSocket(i) \/ ListenerBind(i) \/ ListenerOpenLog(i)
ListenerPoll(i) == ListenerLoop(i) \/ ListenerRecvNone(i) \/ ListenerSleep(i)
ListenerAccept(i) ==
    \/ ListenerRecvDgram(i) \/ ListenerCopyTCP(i) \/ ListenerCopyJoints(i)
    \/ ListenerLog(i) \/ ListenerInterval(i) \/ ListenerLastUpdate(i) \/ ListenerSetReceived(i)
ListenerTeardown(i) == ListenerCloseLog(i) \/ ListenerCloseSocket(i) \/ ListenerSetTerminated(i)

udpRxThreadFunction(i) ==
    ListenerSetup(i) \/ ListenerPoll(i) \/ ListenerAccept(i) \/ ListenerTeardown(i)

(***************************************************************************)
(* sendJointPositionRef                                                    *)
(***************************************************************************)
JointRefs == {31, 32}
PlayTimes == {25, 50}

\* the modes for which the class defines a method that transmits a reference:
\* sendJointPositionRef.  sendTCPPositionRef is declared in the header and
\* defined nowhere; the four other modes have no method at all.
SendMethods == {LiCAS_CONTROL_MODE_JOINT_POS}

\* the packet is a local that is not initialised: refLTCP, refRTCP and, until
\* it is stamped, timeStamp hold what the stack held
BuildPacket(qLref, qRref, playTime, g) ==
    [mode |-> LiCAS_CONTROL_MODE_JOINT_POS, playTime |-> playTime,
     refLTCP |-> g, refRTCP |-> g, refLJ |-> qLref, refRJ |-> qRref, timeStamp |-> g]

CallSend(mode) ==
    /\ mode \in SendMethods
    /\ cpc = "idle"
    /\ ncalls < MaxCalls
    /\ \E qLref \in JointRefs, qRref \in JointRefs, playTime \in PlayTimes, g \in Garbage :
          /\ cargs' = [op |-> "send", mode |-> mode, qLref |-> qLref, qRref |-> qRref,
                       playTime |-> playTime]
          /\ ctrlPkt' = BuildPacket(qLref, qRref, playTime, g)
    /\ cerr' = 0
    /\ bytesSent' = 0
    /\ nSendto' = 0
    /\ cpc' = "s_stamp"
    /\ ncalls' = ncalls + 1
    /\ UNCHANGED <<mvars, tvars, flags, fbvars, timer, cflag, lastRet, lvars, gvars, osvars,
                   nPolls, lastSpawn, prevSent>>

\* controlRefDataPacket.timeStamp = this->getElapsedTime()
SendStamp ==
    /\ cpc = "s_stamp"
    /\ gt[CallerId] = Returned
    /\ gt' = [gt EXCEPT ![CallerId] = 0]
    /\ UNCHANGED <<tret, tloc>>
    /\ ctrlPkt' = [ctrlPkt EXCEPT !.timeStamp = tret[CallerId]]
    /\ cpc' = "s_sendto"
    /\ UNCHANGED <<mvars, tvars, flags, fbvars, cargs, cerr, timer, cflag, bytesSent, lastRet,
                   lvars, osvars, bvars>>

\* sendto(socketSender, &packet, sizeof(packet), ...): -1, or the bytes sent
SendtoResults(fd) ==
    {-1} \cup (IF IsSocket(fd) THEN {SizeofControlRef - 1, SizeofControlRef} ELSE {})

SendTo ==
    /\ cpc = "s_sendto"
    /\ \E r \in SendtoResults(socketSender) :
          /\ bytesSent' = r
          /\ wire' = IF r < 0 THEN wire
                     ELSE Append(wire, [len |-> r, to |-> addrHost, data |-> ctrlPkt])
    /\ nSendto' = nSendto + 1
    /\ cpc' = "s_check"
    /\ UNCHANGED <<mvars, tvars, flags, fbvars, cargs, cerr, timer, cflag, ctrlPkt, lastRet,
                   lvars, gvars, fds, clock, logFile, inflight, ncalls, nPolls, lastSpawn, prevSent>>

\* a test that misses the failed call
SendErrorCodeShortOnly(n) == IF n >= 0 /\ n # SizeofControlRef THEN 1 ELSE 0
\* a test that misses the short count
SendErrorCodeNegativeOnly(n) == IF n < 0 THEN 1 ELSE 0
\* if(bytesSent < 0) errorCode = 1; else if(bytesSent != sizeof(packet)) errorCode = 1
SendErrorCode(n) == IF n < 0 THEN 1 ELSE IF n # SizeofControlRef THEN 1 ELSE 0

SendCheck ==
    /\ cpc = "s_check"
    /\ cerr' = SendErrorCode(bytesSent)
    /\ cpc' = "s_ret"
    /\ UNCHANGED <<mvars, tvars, flags, fbvars, cargs, timer, cflag, bytesSent, ctrlPkt,
                   lastRet, lvars, gvars, osvars, bvars>>

\* return errorCode: the locals are gone, the datagram has left
SendReturn ==
    /\ cpc = "s_ret"
    /\ lastRet' = [op |-> "send", code |-> cerr]
    /\ cargs' = NoArgs
    /\ ctrlPkt' = NoPacket
    /\ cerr' = 0
    /\ bytesSent' = 0
    /\ nSendto' = 0
    /\ wire' = <<>>
    /\ prevSent' = IF wire = <<>> THEN prevSent ELSE [args |-> cargs, data |-> wire[1].data]
    /\ cpc' = "idle"
    /\ UNCHANGED <<mvars, tvars, flags, fbvars, timer, cflag, lvars, gvars,
                   fds, clock, logFile, inflight, ncalls, nPolls, lastSpawn>>

sendJointPositionRef ==
    CallSend(LiCAS_CONTROL_MODE_JOINT_POS) \/ SendStamp \/ SendTo \/ SendCheck \/ SendReturn

(***************************************************************************)
(* getElapsedTime called from outside the class: it is a public method     *)
(***************************************************************************)
CallGetElapsedTime ==
    /\ cpc = "idle"
    /\ ncalls < MaxCalls
    /\ cargs' = [op |-> "time"]
    /\ cpc' = "g_time"
    /\ ncalls' = ncalls + 1
    /\ UNCHANGED <<mvars, tvars, flags, fbvars, cerr, timer, cflag, bytesSent, ctrlPkt, lastRet,
                   lvars, gvars, osvars, nPolls, nSendto, lastSpawn, prevSent>>

GetElapsedTimeReturn ==
    /\ cpc = "g_time"
    /\ gt[CallerId] = Returned
    /\ gt' = [gt EXCEPT ![CallerId] = 0]
    /\ lastRet' = [op |-> "time", code |-> tret[CallerId]]
    /\ cargs' = NoArgs
    /\ cpc' = "idle"
    /\ UNCHANGED <<mvars, tvars, flags, fbvars, cerr, timer, cflag, bytesSent, ctrlPkt,
                   lvars, tret, tloc, osvars, bvars>>

(***************************************************************************)
(* The clock read by gettimeofday moves on                                 *)
(***************************************************************************)
ClockTick ==
    /\ clock < MaxClock
    /\ clock' = clock + 1
    /\ UNCHANGED <<mvars, tvars, flags, fbvars, cvars, lvars, gvars, fds, logFile, inflight,
                   wire, bvars>>

(***************************************************************************)
(* The threads run at any relative speed.                                  *)
(*                                                                         *)
(* Spec: opening and closing in any order, on one receive port; no         *)
(* datagram arrives.                                                       *)
(***************************************************************************)
Init0 ==
    /\ Init
    /\ inflight = <<>>
    /\ fb["pL"] = 0

Next ==
    \/ openUDPInterface(Hosts, {RxPort})
    \/ closeInterface
    \/ \E i \in Listeners : ListenerSetup(i) \/ ListenerPoll(i) \/ ListenerTeardown(i)

Spec == Init0 /\ [][Next]_vars

(***************************************************************************)
(* SpecRx: reception.  The interface is opened for a host that resolves,   *)
(* on either receive port, and datagrams arrive.                           *)
(***************************************************************************)
InitRx ==
    /\ Init
    /\ fb["pL"] = 0

NextRx ==
    \/ openUDPInterface({"host"}, RxPorts)
    \/ \E i \in Listeners : udpRxThreadFunction(i)
    \/ \E i \in Listeners : getElapsedTimeAlone(i)

SpecRx == InitRx /\ [][NextRx]_vars

(***************************************************************************)
(* SpecTx: transmission, at any moment of the interface's life: the        *)
(* caller's thread alone, the reception threads have not run yet.          *)
(***************************************************************************)
NextTx ==
    \/ openUDPInterface(Hosts, {RxPort})
    \/ closeInterface
    \/ sendJointPositionRef
    \/ getElapsedTime(CallerId)
    \/ ClockTick

SpecTx == Init0 /\ [][NextTx]_vars

(***************************************************************************)
(* SpecClock: the caller reads the elapsed time while the first reception  *)
(* thread takes a datagram in, time passes, and the statements of          *)
(* getElapsedTime interleave.  A second reception thread, if started, has  *)
(* not run yet.                                                            *)
(***************************************************************************)
InitClock ==
    /\ Init
    /\ fb["pL"] = 0
    /\ Len(inflight) = 1
    /\ inflight[1].port = RxPort /\ Accepts(inflight[1].len)

NextClock ==
    \/ openUDPInterface({"host"}, {RxPort})
    \/ CallGetElapsedTime
    \/ GetElapsedTimeReturn
    \/ udpRxThreadFunction(1)
    \/ \E th \in {CallerId, 1} : getElapsedTime(th)
    \/ ClockTick

SpecClock == InitClock /\ [][NextClock]_vars

(***************************************************************************)
(* SpecTimed: the threads run on a machine that is not loaded.  A          *)
(* statement takes no time against the 10 ms of a usleep: the sleeping     *)
(* threads wake together, once no thread has a statement left to run, and  *)
(* a thread that can run does run.  No datagram arrives.                   *)
(***************************************************************************)
Running(th) ==
    IF th = CallerId THEN cpc \notin {"idle", "c_grace", "c_sleep"}
    ELSE lpc[th] \notin {"unborn", "sleep", "done"}
Asleep(th) == IF th = CallerId THEN cpc \in {"c_grace", "c_sleep"} ELSE lpc[th] = "sleep"

\* the usleep(10000) of every sleeping thread ends
TenMilliseconds ==
    /\ \A th \in Threads : ~Running(th)
    /\ \E th \in Threads : Asleep(th)
    /\ lpc' = [i \in Listeners |-> IF lpc[i] = "sleep" THEN "loop" ELSE lpc[i]]
    /\ cpc' = CASE cpc = "c_grace" -> "c_sock" [] cpc = "c_sleep" -> "c_loop" [] OTHER -> cpc
    /\ timer' = IF cpc = "c_sleep" THEN TimerAdd(timer) ELSE timer
    /\ nPolls' = IF cpc = "c_sleep" THEN nPolls + 1 ELSE nPolls
    /\ UNCHANGED <<mvars, tvars, flags, fbvars, cargs, cerr, cflag, bytesSent, ctrlPkt, lastRet,
                   socketReceiver, dataReceived, buffer, lerr, logStream, gvars, osvars,
                   ncalls, nSendto, lastSpawn, prevSent>>

CallerRuns ==
    \/ OpenSocket \/ OpenHost \/ OpenSpawn \/ OpenReturn
    \/ CloseSetFlag \/ CloseSocket \/ CloseLoop \/ CloseCheck \/ CloseReturn

ListenerRuns(i) ==
    \/ ListenerSetup(i) \/ ListenerLoop(i) \/ ListenerRecvNone(i) \/ ListenerTeardown(i)

NextTimed ==
    \/ CallOpen(Hosts, {RxPort})
    \/ CallClose
    \/ CallerRuns
    \/ \E i \in Listeners : ListenerRuns(i)
    \/ TenMilliseconds

SpecTimed ==
    /\ Init0
    /\ [][NextTimed]_vars
    /\ WF_vars(CallerRuns)
    /\ \A i \in Listeners : WF_vars(ListenerRuns(i))
    /\ WF_vars(TenMilliseconds)

(***************************************************************************)
(* Properties                                                              *)
(***************************************************************************)
\* the statements of the reception loop's body, and of an accepted datagram
PollingPcs == {"recv", "copyTCP", "copyJoints", "log", "dt", "tlast", "flag", "sleep"}
Polling(i) == lpc[i] \in PollingPcs

\* C1: when closeInterface returns 0, every reception thread that was started
\* has finished its teardown (log closed, socket closed, terminated flag
\* set), whatever calls of open and close came before.
C1_CloseSuccessAfterTeardown ==
    (cpc = "c_ret" /\ cerr = 0) => \A i \in Listeners : lpc[i] \in {"unborn", "done"}

\* C2: on a machine where every thread that can run does run, a
\* closeInterface that finds a reception thread in its polling loop makes
\* that thread leave the loop and finish, and returns 0 within the poll
\* budget; a close times out only when no reception thread was ever started.
C2_ResponsiveCloseSucceeds ==
    /\ \A i \in Listeners : (cpc = "c_grace" /\ Polling(i)) ~> (lpc[i] = "done")
    /\ \A i \in Listeners :
          (cpc = "c_grace" /\ Polling(i))
              ~> (cpc = "c_ret" /\ cerr = 0 /\ nPolls <= PollBudget
                  /\ flagRxThreadTerminated = 1)
    /\ []((cpc = "c_ret" /\ cerr = 1) => lastSpawn = 0)

\* a close has returned 0 on a reception thread that was set up without
\* error, has polled, and has finished
C2_Witness ==
    /\ cpc = "c_ret"
    /\ cerr = 0
    /\ \E i \in Listeners : lpc[i] = "done" /\ lerr[i] = 0 /\ dataReceived[i] = -1

\* C3: closeInterface sleeps at most PollBudget (100) times in its wait loop,
\* and it returns the timeout error only after all of these polls, the
\* terminated flag still unset.
C3_AtMostPollBudgetPolls ==
    /\ nPolls <= PollBudget
    /\ (cpc = "c_ret" /\ cerr = 1) => (nPolls = PollBudget /\ cflag = 0)

\* C4: closeInterface returns 1 exactly when the terminated flag was not set
\* when the wait loop was left: a flag found set at the loop's last test,
\* set during the last sleep included, gives 0.
C4_TimeoutIffFlagUnset ==
    cpc = "c_ret" => (cerr = 1 <=> cflag = 0)

\* C5: openUDPInterface has returned 0 only if the sender socket was created
\* and the socket of the reception thread it started was created and bound:
\* that thread's set-up does not fail.
C5_OpenSuccessMeansReceiverBound ==
    (cpc = "idle" /\ lastRet = [op |-> "open", code |-> 0])
        => /\ IsSocket(socketSender)
           /\ lastSpawn \in Listeners
           /\ lerr[lastSpawn] = 0

\* C6: a reception thread whose set-up failed, at the socket, at the bind or
\* at the opening of the log file, never enters the body of its polling loop.
C6_FailedSetupNeverPolls ==
    \A i \in Listeners :
        (lerr[i] # 0 \/ logStream[i].state = "failed") => ~Polling(i)

\* C7: a pass of the reception loop whose receive attempt returned a length
\* other than the size of the feedback packet changes no published field,
\* neither t_lastUpdate nor elapsedTimeLastUpdate, not flagFeedbackReceived
\* and not the log file.
C7_WrongLengthChangesNothing ==
    [][\A i \in Listeners :
          (Polling(i) /\ lpc'[i] # lpc[i] /\ dataReceived'[i] # SizeofFeedback)
              => UNCHANGED <<fbvars, flagFeedbackReceived, logFile>>]_vars

\* a datagram one byte too long has been received and the pass has reached
\* its sleep, nothing published
C7_Witness ==
    \E i \in Listeners :
        /\ lpc[i] = "sleep"
        /\ dataReceived[i] = SizeofFeedback + 1
        /\ flagFeedbackReceived = 0
        /\ \A f \in FieldNames : fb[f] = 0

\* C8: when a reception thread ends the processing of a datagram of the
\* packet's size, by setting flagFeedbackReceived, every published array
\* holds the value of that packet.
C8_PublishedEqualsPacket ==
    [][\A i \in Listeners :
          (lpc[i] = "flag" /\ lpc'[i] = "sleep")
              => /\ \A f \in FieldNames : fb'[f] = buffer[i][f]
                 /\ flagFeedbackReceived' = 1]_vars

\* C9: each of the six control modes has a transmit operation the caller can
\* call, and a call that returns 0 has sent exactly one datagram, of the size
\* of the control packet, with the mode of the operation and the play time
\* and the reference arrays of its arguments.
C9_EveryModeTransmits ==
    /\ (cpc = "idle" /\ ncalls < MaxCalls) => \A m \in ControlModes : ENABLED CallSend(m)
    /\ (cpc = "s_ret" /\ cerr = 0)
          => /\ nSendto = 1
             /\ Len(wire) = 1
             /\ wire[1].len = SizeofControlRef
             /\ wire[1].data.mode = cargs.mode
             /\ wire[1].data.playTime = cargs.playTime
             /\ wire[1].data.refLJ = cargs.qLref
             /\ wire[1].data.refRJ = cargs.qRref

\* C10: sendJointPositionRef returns 0 exactly when its sendto returned the
\* size of the control packet; a negative result and a short count both give
\* the error; sendto is called once.
C10_SendResultIffFullSize ==
    cpc = "s_ret"
        => /\ cerr = 0 <=> bytesSent = SizeofControlRef
           /\ bytesSent < SizeofControlRef => cerr = 1
           /\ nSendto = 1

\* a sendto that sent one byte less than the packet has been reported
C10_Witness ==
    cpc = "s_ret" /\ bytesSent = SizeofControlRef - 1 /\ cerr = 1 /\ Len(wire) = 1

\* C11: two calls of sendJointPositionRef with equal qLref, qRref and playTime
\* whose packets carry the same time stamp send identical packets, the unused
\* arrays refLTCP and refRTCP included.
C11_EqualCallsSendEqualPackets ==
    (cpc = "s_ret" /\ wire # <<>> /\ prevSent # NoSent
        /\ prevSent.args = cargs
        /\ prevSent.data.timeStamp = wire[1].data.timeStamp)
        => prevSent.data = wire[1].data

\* the statements of closeInterface
ClosePcs == {"c_flag", "c_grace", "c_sock", "c_loop", "c_sleep", "c_check", "c_ret"}

\* C12: a closeInterface on an interface that was never opened, or one that
\* follows a closeInterface directly, releases or alters no descriptor; the
\* one that follows a close changes no member of the instance either,
\* whatever the reception threads do meanwhile.
C12_RepeatedCloseChangesNothing ==
    [][(cpc \in ClosePcs /\ cpc' # cpc /\ lastRet.op \in {"none", "close"})
          => /\ fds' = fds
             /\ lastRet.op = "close"
                   => UNCHANGED <<mvars, tvars, flags, fbvars, lvars, logFile>>]_vars

\* a second close is returning 0 where the first returned the timeout, a
\* reception thread having ended in between
C12_Witness ==
    /\ cpc = "c_ret"
    /\ cerr = 0
    /\ lastRet = [op |-> "close", code |-> 1]
    /\ lastSpawn > 0

\* the reception thread i has created its socket and not yet closed it
HoldsReceiver(i) ==
    /\ lpc[i] \in {"bind", "openlog", "loop", "closelog", "closesock"} \cup PollingPcs
    /\ lerr[i] = 0
    /\ IsSocket(socketReceiver[i])

\* C13: closeInterface closes the sender socket only after it has set
\* flagTerminateThread, and leaves socketSender = -1; the socket of a reception
\* thread is released by no one but the thread that created it.
C13_SocketOwnership ==
    /\ [](cpc = "c_sock" => flagTerminateThread = 1)
    /\ [](cpc \in {"c_loop", "c_sleep", "c_check", "c_ret"} => socketSender = -1)
    /\ [][\A i \in Listeners :
             (HoldsReceiver(i) /\ fds'[socketReceiver[i]].kind = "free")
                 => lpc'[i] # lpc[i]]_vars

\* C14: setting flagRxThreadTerminated is the last thing a reception thread
\* does: when it gets there its log stream is closed and the descriptor of its
\* socket has been released, it takes no step afterwards, a thread inside the
\* loop leaves the flag alone, and a thread whose setup succeeded sets it only
\* once flagTerminateThread is set.
C14_TerminatedFlagIsLast ==
    /\ [](\A i \in Listeners :
            lpc[i] \in {"setterm", "done"} => logStream[i].state # "open")
    /\ [][\A i \in Listeners :
             /\ (lpc'[i] = "setterm" /\ lpc[i] # "setterm" /\ lerr[i] = 0)
                   => (socketReceiver[i] \in Fds /\ fds'[socketReceiver[i]].kind = "free")
             /\ lpc[i] = "done" => lpc'[i] = "done"
             /\ (lpc[i] \in PollingPcs \cup {"loop"} /\ lpc'[i] # lpc[i])
                   => flagRxThreadTerminated' = flagRxThreadTerminated
             /\ (lpc[i] = "setterm" /\ lpc'[i] = "done" /\ lerr[i] = 0)
                   => flagTerminateThread = 1]_vars

C14_Witness ==
    \E i \in Listeners :
        /\ lpc[i] = "done" /\ lerr[i] = 0
        /\ flagRxThreadTerminated = 1
        /\ logStream[i].fd \in Fds /\ logStream[i].state = "closed"

\* C15: the values getElapsedTime returns to one thread never decrease,
\* whatever the other threads do in between.
C15_ElapsedTimeNeverDecreases ==
    [][\A th \in Threads : tret'[th] >= tret[th]]_vars

\* C16: a reception thread adds one line to the log for every datagram it
\* accepts, carrying the fields of that datagram, and no line at any other
\* statement of its loop.
C16_OneLinePerAcceptedDatagram ==
    [][\A i \in Listeners :
          /\ (lpc[i] = "log" /\ lpc'[i] = "dt")
                => /\ Len(logFile') = Len(logFile) + 1
                   /\ \A f \in FieldNames : logFile'[Len(logFile')][f] = buffer[i][f]
          /\ (Polling(i) /\ lpc[i] # "log" /\ lpc'[i] # lpc[i])
                => logFile' = logFile]_vars

\* C17: the log only grows: whatever a reception thread does, opening the
\* file included, the lines that were in the file are still there, in place.
C17_LogIsAppendOnly ==
    [][/\ Len(logFile') >= Len(logFile)
       /\ \A k \in 1 .. Len(logFile) : logFile'[k] = logFile[k]]_vars

\* the reception thread i has been started and has not returned
Alive(i) == lpc[i] \notin {"unborn", "done"}

\* C18: whatever the calls of openUDPInterface and closeInterface, at most
\* one reception thread is alive.
C18_AtMostOneListener ==
    \A i, j \in Listeners : (Alive(i) /\ Alive(j)) => i = j

\* C19: a call of openUDPInterface that fails returns a code that is not 0;
\* its statements start no reception thread and leave the stored address,
\* the ports and the three flags as they were; and once it has returned,
\* socketSender is not the descriptor of an open socket.
C19_FailedOpenLeavesNothing ==
    /\ [][(cpc \in {"o_socket", "o_host", "o_ret"} /\ cpc' # cpc /\ (cerr # 0 \/ cerr' # 0))
            => /\ UNCHANGED <<LiCAS_IP_Address, UDP_TxPort, UDP_RxPort, addrHost, flags, lpc>>
               /\ cpc' = "idle" => lastRet'.code # 0]_vars
    /\ []((cpc = "idle" /\ lastRet.op = "open" /\ lastRet.code # 0)
            => ~IsSocket(socketSender))

\* C20: when a reception thread has updated t_lastUpdate for an accepted
\* datagram, elapsedTimeLastUpdate is the new t_lastUpdate minus the one
\* before.
C20_IntervalFromOneSample ==
    [][\A i \in Listeners :
          (lpc[i] = "tlast" /\ lpc'[i] = "flag")
              => elapsedTimeLastUpdate' = t_lastUpdate' - t_lastUpdate]_vars

\* C21: a reception thread goes to its usleep only from a receive attempt
\* that took no datagram; after a datagram, accepted or discarded, it does
\* not sleep before it tries to receive again.
C21_SleepsOnlyAfterEmptyPoll ==
    [][\A i \in Listeners :
          (lpc'[i] = "sleep" /\ lpc[i] # "sleep")
              => (lpc[i] = "recv" /\ inflight' = inflight)]_vars

\* C22: flagTerminateThread and flagRxThreadTerminated, once 1, stay 1; a
\* reception thread that starts with flagTerminateThread set never makes a
\* receive attempt and goes on to set flagRxThreadTerminated; and the
\* openUDPInterface that started it returns 0 all the same.
C22_StaleTerminateStopsNewListener ==
    /\ [][/\ flagTerminateThread = 1 => flagTerminateThread' = 1
          /\ flagRxThreadTerminated = 1 => flagRxThreadTerminated' = 1
          /\ (cpc = "o_spawn" /\ cpc' = "o_ret" /\ flagTerminateThread = 1) => cerr' = 0
          /\ (cpc = "o_ret" /\ cpc' = "idle") => lastRet'.code = cerr]_vars
    /\ \A i \in Listeners :
          []((lpc[i] = "socket" /\ flagTerminateThread = 1) => [](~Polling(i)))
    /\ \A i \in Listeners :
          (lpc[i] = "socket" /\ flagTerminateThread = 1)
              ~> (lpc[i] = "done" /\ flagRxThreadTerminated = 1)

C22_Witness ==
    /\ cpc = "idle" /\ lastRet = [op |-> "open", code |-> 0]
    /\ lastSpawn = 2 /\ flagTerminateThread = 1
    /\ lpc[2] = "done" /\ lerr[2] = 0
    /\ flagRxThreadTerminated = 1

\* the statements of sendJointPositionRef
SendPcs == {"s_stamp", "s_sendto", "s_check", "s_ret"}
\* the interface holds no open sender socket: socketSender is -1, as the
\* constructor and closeInterface leave it, or no openUDPInterface has
\* succeeded yet
NoSender == socketSender = -1 \/ lastSpawn = 0

\* C23: a sendJointPositionRef made while the interface holds no open sender
\* socket puts no datagram on the network and returns 1, and its statements
\* leave the feedback members and the three flags as they were.
C23_SendWithoutSocketFails ==
    /\ []((cpc = "s_ret" /\ NoSender) => (cerr = 1 /\ bytesSent < 0 /\ wire = <<>>))
    /\ [][(cpc \in SendPcs /\ cpc' # cpc /\ NoSender)
            => /\ UNCHANGED <<fbvars, flags>>
               /\ cpc' = "idle" => lastRet' = [op |-> "send", code |-> 1]]_vars

\* a send after closeInterface has put -1 in socketSender
C23_Witness ==
    /\ cpc = "s_ret" /\ nSendto = 1 /\ cerr = 1
    /\ socketSender = -1 /\ lastSpawn = 1 /\ lastRet.op = "close"

====
